---- MODULE Spec2Model ----
(***************************************************************************)
(* The lot-based cost-basis ledger of TransactionTracker                   *)
(* (src/src/portfolio_tracker/transaction_tracker.py).                     *)
(*                                                                         *)
(* out[t] keeps, with the outcome of tracker t's last call, the arguments  *)
(* it was called with and whether it ran while another tracker's call was  *)
(* in progress ("overlapped").                                             *)
(*                                                                         *)
(* The three SQLite tables are sequences of rows; AUTOINCREMENT ids are    *)
(* the positions in the sequence (no statement of the tracker deletes a    *)
(* row).  Asset amounts are counted in whole units, timestamps in whole    *)
(* seconds (the resolution of the "%Y-%m-%d %H:%M:%S" text the tracker     *)
(* stores, which sorts chronologically), and the REAL money columns that   *)
(* the tracker computes by division are exact rationals <<num, den>>.      *)
(***************************************************************************)
EXTENDS Integers, Sequences, FiniteSets, TLC

VARIABLES
    db,       \* the committed database: what a fresh connection reads
    pending,  \* per tracker: its connection's uncommitted working copy, or NoTx
    pc,       \* per tracker: the statement record_transaction is at
    frame,    \* per tracker: the locals of the running record_transaction
    out,      \* per tracker: how its last record_transaction ended
    calls,    \* the number of record_transaction calls made so far
    inputs    \* the sets the calls' arguments are drawn from (fixed by Init)

vars == <<db, pending, pc, frame, out, calls, inputs>>

(***************************** bounds **************************************)
MaxAmount == 2
MaxTime == 2
MaxTx == 3
MaxHash == 2

(************************* exact arithmetic ********************************)
Abs(x) == IF x < 0 THEN -x ELSE x

RECURSIVE Gcd(_, _)
Gcd(a, b) == IF b = 0 THEN a ELSE Gcd(b, a % b)

\* The rational n/d (d > 0) in lowest terms.
Norm(n, d) == LET g == Gcd(Abs(n), d) IN <<n \div g, d \div g>>

Q(n) == <<n, 1>>
QAdd(x, y) == Norm(x[1] * y[2] + y[1] * x[2], x[2] * y[2])
QSub(x, y) == Norm(x[1] * y[2] - y[1] * x[2], x[2] * y[2])
QMul(x, y) == Norm(x[1] * y[1], x[2] * y[2])
\* x / y for y > 0, the only divisions the tracker makes (guarded by "> 0").
QDiv(x, y) == Norm(x[1] * y[2], x[2] * y[1])
QPos(x) == x[1] > 0

RECURSIVE SumSeq(_)
SumSeq(s) == IF s = <<>> THEN 0 ELSE Head(s) + SumSeq(Tail(s))

RECURSIVE QSumSeq(_)
QSumSeq(s) == IF s = <<>> THEN Q(0) ELSE QAdd(Head(s), QSumSeq(Tail(s)))

\* The rows of table tbl that satisfy Keep, in id order.
SelectWhere(tbl, Keep(_)) == SelectSeq(tbl, Keep)

Column(rows, Field(_)) == [i \in DOMAIN rows |-> Field(rows[i])]

(***************************** the schema **********************************)
\* SQL NULL / Python None in a date or id column.
NULL == 0

\* A connection outside a transaction; inside one, pending[t] is <<rows>>.
NoTx == <<>>

Trackers == {1, 2}

EmptyDb == [transactions |-> <<>>, cost_basis_lots |-> <<>>, realized_pnl |-> <<>>]

AccountingMethod == {"FIFO", "LIFO", "AVERAGE_COST", "SPECIFIC_ID"}

\* What a statement on tracker t's connection reads and writes: its own
\* uncommitted changes when it is inside a transaction, else the committed rows.
View(t) == IF pending[t] = NoTx THEN db ELSE pending[t][1]

(********************** record_transaction: statements *********************)
\* INSERT INTO transactions (lines 200-209); cursor.lastrowid is the new length.
InsertTransaction(d, a) ==
    [d EXCEPT !.transactions = Append(@,
        [id |-> Len(d.transactions) + 1,
         timestamp |-> a.timestamp,
         symbol |-> a.symbol,
         transaction_type |-> a.transaction_type,
         amount |-> a.amount,
         price_per_unit |-> a.price_per_unit,
         total_value |-> a.amount * a.price_per_unit,
         fee |-> a.fee,
         transaction_id |-> a.transaction_id])]

\* Mutant of CostPerUnit: the acquisition fee left out of the cost basis.
CostPerUnit_NoFee(a) ==
    IF a.amount > 0 THEN Q(a.price_per_unit) ELSE Q(0)

\* cost_per_unit of a new lot (line 215).
CostPerUnit(a) ==
    IF a.amount > 0
    THEN QDiv(Q(a.amount * a.price_per_unit + a.fee), Q(a.amount))
    ELSE Q(0)

\* INSERT INTO cost_basis_lots (lines 216-224); is_closed and closed_date take
\* the column defaults 0 and NULL.
InsertLot(d, trans_id, a) ==
    [d EXCEPT !.cost_basis_lots = Append(@,
        [id |-> Len(d.cost_basis_lots) + 1,
         transaction_id |-> trans_id,
         symbol |-> a.symbol,
         amount |-> a.amount,
         cost_per_unit |-> CostPerUnit(a),
         total_cost |-> Q(a.amount * a.price_per_unit + a.fee),
         fee |-> a.fee,
         purchase_date |-> a.timestamp,
         is_closed |-> 0,
         closed_date |-> NULL])]

(**************************** open lots ************************************)
\* Mutant of OpenLotsOf: the is_closed = 0 condition left out.
OpenLotsOf_ClosedToo(d, symbol) ==
    SelectWhere(d.cost_basis_lots, LAMBDA r : r.symbol = symbol)

\* WHERE symbol = ? AND is_closed = 0 (lines 322, 333, 351).
OpenLotsOf(d, symbol) ==
    SelectWhere(d.cost_basis_lots, LAMBDA r : r.symbol = symbol /\ r.is_closed = 0)

\* Mutant of FifoBefore: lots taken in insertion order.
FifoBefore_InsertionOrder(l1, l2) == l1.id < l2.id

\* ORDER BY purchase_date ASC, id ASC.
FifoBefore(l1, l2) ==
    \/ l1.purchase_date < l2.purchase_date
    \/ l1.purchase_date = l2.purchase_date /\ l1.id < l2.id

\* Mutant of LifoBefore: the oldest lot first.
LifoBefore_OldestFirst(l1, l2) ==
    \/ l1.purchase_date < l2.purchase_date
    \/ l1.purchase_date = l2.purchase_date /\ l1.id < l2.id

\* ORDER BY purchase_date DESC, id DESC.
LifoBefore(l1, l2) ==
    \/ l1.purchase_date > l2.purchase_date
    \/ l1.purchase_date = l2.purchase_date /\ l1.id > l2.id

\* rows sorted by the strict total order Before.
OrderBy(rows, Before(_, _)) ==
    LET Rank(i) == 1 + Cardinality({j \in DOMAIN rows : Before(rows[j], rows[i])})
    IN  [k \in DOMAIN rows |-> rows[CHOOSE i \in DOMAIN rows : Rank(i) = k]]

\* The dict the SELECT of lines 320-321 / 331-332 gives for a row.
LotDict(r) ==
    [id |-> r.id, amount |-> r.amount, cost_per_unit |-> r.cost_per_unit,
     total_cost |-> r.total_cost, purchase_date |-> r.purchase_date]

GetOpenLotsFifo(d, symbol) ==
    LET rows == OrderBy(OpenLotsOf(d, symbol), FifoBefore)
    IN  [k \in DOMAIN rows |-> LotDict(rows[k])]

GetOpenLotsLifo(d, symbol) ==
    LET rows == OrderBy(OpenLotsOf(d, symbol), LifoBefore)
    IN  [k \in DOMAIN rows |-> LotDict(rows[k])]

\* SUM(amount) and SUM(total_cost) over the symbol's open lots.
PoolAmount(d, symbol) == SumSeq(Column(OpenLotsOf(d, symbol), LAMBDA r : r.amount))
PoolCost(d, symbol) == QSumSeq(Column(OpenLotsOf(d, symbol), LAMBDA r : r.total_cost))

\* Mutant of AvgCostPerUnit: the pool cost divided by the number of lots.
AvgCostPerUnit_PerLot(d, symbol) ==
    IF PoolAmount(d, symbol) > 0
    THEN QDiv(PoolCost(d, symbol), Q(Len(OpenLotsOf(d, symbol))))
    ELSE Q(0)

\* avg_cost_per_unit of the CASE expression (lines 346-349).
AvgCostPerUnit(d, symbol) ==
    IF PoolAmount(d, symbol) > 0
    THEN QDiv(PoolCost(d, symbol), Q(PoolAmount(d, symbol)))
    ELSE Q(0)

\* One "virtual" lot with the special id 0, or no lot (lines 354-364).
GetOpenLotsAverageCost(d, symbol) ==
    IF OpenLotsOf(d, symbol) # <<>> /\ PoolAmount(d, symbol) > 0
    THEN << [id |-> 0,
             amount |-> PoolAmount(d, symbol),
             cost_per_unit |-> AvgCostPerUnit(d, symbol),
             total_cost |-> PoolCost(d, symbol),
             purchase_date |-> NULL] >>
    ELSE <<>>

\* The dispatch of lines 252-259.
GetOpenLots(d, method, symbol) ==
    CASE method = "FIFO" -> GetOpenLotsFifo(d, symbol)
      [] method = "LIFO" -> GetOpenLotsLifo(d, symbol)
      [] method = "AVERAGE_COST" -> GetOpenLotsAverageCost(d, symbol)
      [] OTHER -> GetOpenLotsFifo(d, symbol)

(********************* _process_sell_transaction ***************************)
Min(x, y) == IF x <= y THEN x ELSE y

\* Mutant of AmountToClose: the whole lot, whatever is left to sell.
AmountToClose_WholeLot(remaining_to_sell, lot_amount) == lot_amount

\* amount_to_close (line 271).
AmountToClose(remaining_to_sell, lot_amount) == Min(remaining_to_sell, lot_amount)

\* Mutant of FeeAllocation: the whole fee charged to every lot.
FeeAllocation_WholeFee(a, amount_to_close) == Q(a.fee)

\* fee_allocation (line 277).
FeeAllocation(a, amount_to_close) ==
    IF a.amount > 0
    THEN QMul(Q(a.fee), QDiv(Q(amount_to_close), Q(a.amount)))
    ELSE Q(0)

\* INSERT INTO realized_pnl (lines 274-290) for one lot of the loop.
InsertRealizedPnl(d, trans_id, a, lot, amount_to_close) ==
    LET cost_basis == QMul(Q(amount_to_close), lot.cost_per_unit)
        sale_proceeds == Q(amount_to_close * a.price_per_unit)
        fee_allocation == FeeAllocation(a, amount_to_close)
    IN  [d EXCEPT !.realized_pnl = Append(@,
            [id |-> Len(d.realized_pnl) + 1,
             sell_transaction_id |-> trans_id,
             lot_id |-> lot.id,
             symbol |-> a.symbol,
             amount |-> amount_to_close,
             cost_basis |-> cost_basis,
             sale_price |-> a.price_per_unit,
             sale_value |-> sale_proceeds,
             realized_gain_loss |-> QSub(QSub(sale_proceeds, cost_basis), fee_allocation),
             accounting_method |-> a.accounting_method,
             sale_date |-> a.timestamp])]

\* Mutant of UpdateLot: the lot left as it was.
UpdateLot_Skipped(d, a, lot, amount_to_close) == d

\* The rows an UPDATE cost_basis_lots ... WHERE id = ? changes.
UpdateTarget(r, lot_id) == r.id = lot_id

\* Mutant of UpdateLot: a partial close that leaves total_cost as it was.
UpdateLot_AmountOnly(d, a, lot, amount_to_close) ==
    [d EXCEPT !.cost_basis_lots =
        [i \in DOMAIN @ |->
            IF @[i].id # lot.id THEN @[i]
            ELSE IF amount_to_close >= lot.amount
                 THEN [@[i] EXCEPT !.is_closed = 1, !.closed_date = a.timestamp]
                 ELSE [@[i] EXCEPT !.amount = lot.amount - amount_to_close]]]

\* UPDATE cost_basis_lots (lines 293-308): close the lot, or reduce it.
UpdateLot(d, a, lot, amount_to_close) ==
    [d EXCEPT !.cost_basis_lots =
        [i \in DOMAIN @ |->
            IF ~UpdateTarget(@[i], lot.id) THEN @[i]
            ELSE IF amount_to_close >= lot.amount
                 THEN [@[i] EXCEPT !.is_closed = 1, !.closed_date = a.timestamp]
                 ELSE [@[i] EXCEPT
                          !.amount = lot.amount - amount_to_close,
                          !.total_cost = QMul(Q(lot.amount - amount_to_close),
                                              lot.cost_per_unit)]]]

\* The loop of lines 262-310 over the lots that are left, as one fold.
RECURSIVE MatchLots(_, _, _, _, _)
MatchLots(d, trans_id, a, lots, remaining_to_sell) ==
    IF lots = <<>> \/ remaining_to_sell <= 0
    THEN [db |-> d, remaining_to_sell |-> remaining_to_sell]
    ELSE LET lot == Head(lots)
             amount_to_close == AmountToClose(remaining_to_sell, lot.amount)
             d1 == InsertRealizedPnl(d, trans_id, a, lot, amount_to_close)
             d2 == UpdateLot(d1, a, lot, amount_to_close)
         IN  MatchLots(d2, trans_id, a, Tail(lots),
                       remaining_to_sell - amount_to_close)

ProcessSellTransaction(d, trans_id, a) ==
    MatchLots(d, trans_id, a, GetOpenLots(d, a.accounting_method, a.symbol), a.amount)

(***************** record_transaction as one committed call ****************)
\* The rows after the whole of record_transaction(a), lines 191-233.
Record(d, a) ==
    LET d1 == InsertTransaction(d, a)
        trans_id == Len(d1.transactions)
    IN  IF a.transaction_type = "BUY"
        THEN InsertLot(d1, trans_id, a)
        ELSE ProcessSellTransaction(d1, trans_id, a).db

\* What the caller gets: the returned trans_id (line 233), and on stdout the
\* amount the warning of lines 312-314 prints (0: no warning).
Returned(d, a) ==
    [status |-> "returned",
     args |-> a,
     overlapped |-> FALSE,
     ret |-> [trans_id |-> Len(d.transactions) + 1],
     warned |-> IF a.transaction_type = "SELL"
                THEN LET r == ProcessSellTransaction(InsertTransaction(d, a),
                                                     Len(d.transactions) + 1, a)
                     IN  IF r.remaining_to_sell > 0 THEN r.remaining_to_sell ELSE 0
                ELSE 0]

NoOutcome ==
    [status |-> "none", args |-> NULL, overlapped |-> FALSE,
     ret |-> [trans_id |-> NULL], warned |-> 0]

NoFrame ==
    [args |-> NULL, trans_id |-> NULL, lots |-> <<>>, remaining_to_sell |-> 0,
     overlapped |-> FALSE, before |-> NULL]

(***************************** the inputs **********************************)
\* The arguments of a call: a BUY has no accounting method to choose.
Args(in) ==
    { [symbol |-> s, transaction_type |-> ty, amount |-> am,
       price_per_unit |-> q[1], fee |-> q[2], timestamp |-> ts,
       transaction_id |-> x, accounting_method |-> m] :
         s \in in.symbols, ty \in {"BUY", "SELL"}, am \in in.amounts,
         q \in in.quotes, ts \in in.times, x \in in.external_ids,
         m \in in.methods }

Calls(in) ==
    {a \in Args(in) : a.transaction_type = "BUY" => a.accounting_method = "FIFO"}

GeneralInputs ==
    [symbols |-> {"BTC", "ETH"},
     amounts |-> 1..MaxAmount,
     quotes |-> {<<1, 0>>, <<2, 1>>},
     times |-> 1..MaxTime,
     external_ids |-> {NULL},
     methods |-> {"FIFO", "LIFO", "AVERAGE_COST"},
     trackers |-> {1}]

(************************ the sequential ledger ****************************)
Init ==
    /\ db = EmptyDb
    /\ pending = [t \in Trackers |-> NoTx]
    /\ pc = [t \in Trackers |-> "idle"]
    /\ frame = [t \in Trackers |-> NoFrame]
    /\ out = [t \in Trackers |-> NoOutcome]
    /\ calls = 0
    /\ inputs = GeneralInputs

\* One whole record_transaction call on tracker t, committed.
RecordTransaction(t, a) ==
    /\ pc[t] = "idle"
    /\ \A u \in Trackers : pending[u] = NoTx
    /\ calls < MaxTx
    /\ calls' = calls + 1
    /\ db' = Record(db, a)
    /\ out' = [out EXCEPT ![t] = Returned(db, a)]
    /\ UNCHANGED <<pending, pc, frame, inputs>>

Next == \E t \in inputs.trackers : \E a \in Calls(inputs) : RecordTransaction(t, a)

Spec == Init /\ [][Next]_vars

(************ record_transaction statement by statement ********************)
\* Two trackers on one database file, each with the connection of line 61.
\* sqlite3 opens a transaction before the first INSERT of a call and keeps it
\* until commit(); SQLite admits one write transaction at a time.
ConcurrentInputs ==
    [symbols |-> {"BTC"},
     amounts |-> 1..MaxAmount,
     quotes |-> {<<2, 1>>},
     times |-> {1},
     external_ids |-> {NULL},
     methods |-> {"FIFO", "LIFO", "AVERAGE_COST"},
     trackers |-> Trackers]

InitConcurrent ==
    /\ db = EmptyDb
    /\ pending = [t \in Trackers |-> NoTx]
    /\ pc = [t \in Trackers |-> "idle"]
    /\ frame = [t \in Trackers |-> NoFrame]
    /\ out = [t \in Trackers |-> NoOutcome]
    /\ calls = 0
    /\ inputs = ConcurrentInputs

\* Tracker t's connection can take the database's write lock.
CanWrite(t) == \A u \in Trackers \ {t} : pending[u] = NoTx

\* Entry of record_transaction(a) (lines 191-197).
Call(t, a) ==
    /\ pc[t] = "idle"
    /\ calls < MaxTx
    /\ calls' = calls + 1
    /\ pc' = [pc EXCEPT ![t] = "insert_transaction"]
    /\ frame' = [u \in Trackers |->
                    IF u = t
                    THEN [args |-> a, trans_id |-> NULL, lots |-> <<>>,
                          remaining_to_sell |-> a.amount,
                          overlapped |-> \E v \in Trackers \ {t} : pc[v] # "idle",
                          before |-> NULL]
                    ELSE IF pc[u] # "idle"
                         THEN [frame[u] EXCEPT !.overlapped = TRUE]
                         ELSE frame[u]]
    /\ out' = [out EXCEPT ![t] = NoOutcome]
    /\ UNCHANGED <<db, pending, inputs>>

\* INSERT INTO transactions (lines 200-211), which takes the write lock.
\* frame[t].before keeps the tables as the connection saw them before the call
\* wrote anything.
InsertTransactionStmt(t) ==
    /\ pc[t] = "insert_transaction"
    /\ CanWrite(t)
    /\ pending' = [pending EXCEPT ![t] = <<InsertTransaction(View(t), frame[t].args)>>]
    /\ frame' = [frame EXCEPT ![t].trans_id = Len(View(t).transactions) + 1,
                              ![t].before = View(t)]
    /\ pc' = [pc EXCEPT ![t] = IF frame[t].args.transaction_type = "BUY"
                                THEN "insert_lot" ELSE "select_lots"]
    /\ UNCHANGED <<db, out, calls, inputs>>

\* The same INSERT while another connection holds the write lock: after the
\* connection's busy timeout sqlite3 raises "database is locked".
DatabaseLocked(t) ==
    /\ pc[t] = "insert_transaction"
    /\ ~CanWrite(t)
    /\ pc' = [pc EXCEPT ![t] = "idle"]
    /\ out' = [out EXCEPT ![t] = [NoOutcome EXCEPT !.status = "raised",
                                                    !.args = frame[t].args,
                                                    !.overlapped = frame[t].overlapped]]
    /\ frame' = [frame EXCEPT ![t] = NoFrame]
    /\ UNCHANGED <<db, pending, calls, inputs>>

\* INSERT INTO cost_basis_lots (lines 214-224).
InsertLotStmt(t) ==
    /\ pc[t] = "insert_lot"
    /\ pending' = [pending EXCEPT ![t] = <<InsertLot(View(t), frame[t].trans_id, frame[t].args)>>]
    /\ pc' = [pc EXCEPT ![t] = "commit"]
    /\ UNCHANGED <<db, frame, out, calls, inputs>>

\* The SELECT of the open lots (lines 246-259).
SelectLotsStmt(t) ==
    /\ pc[t] = "select_lots"
    /\ frame' = [frame EXCEPT ![t].lots =
                    GetOpenLots(View(t), frame[t].args.accounting_method,
                                frame[t].args.symbol)]
    /\ pc' = [pc EXCEPT ![t] = "match"]
    /\ UNCHANGED <<db, pending, out, calls, inputs>>

\* One turn of the loop up to the INSERT INTO realized_pnl (lines 262-290).
InsertRealizedPnlStmt(t) ==
    /\ pc[t] = "match"
    /\ frame[t].lots # <<>> /\ frame[t].remaining_to_sell > 0
    /\ LET lot == Head(frame[t].lots)
       IN  pending' = [pending EXCEPT ![t] =
               <<InsertRealizedPnl(View(t), frame[t].trans_id, frame[t].args, lot,
                                   AmountToClose(frame[t].remaining_to_sell, lot.amount))>>]
    /\ pc' = [pc EXCEPT ![t] = "update_lot"]
    /\ UNCHANGED <<db, frame, out, calls, inputs>>

\* The rest of the turn: UPDATE cost_basis_lots and line 310.
UpdateLotStmt(t) ==
    /\ pc[t] = "update_lot"
    /\ LET lot == Head(frame[t].lots)
           amount_to_close == AmountToClose(frame[t].remaining_to_sell, lot.amount)
       IN  /\ pending' = [pending EXCEPT ![t] =
                  <<UpdateLot(View(t), frame[t].args, lot, amount_to_close)>>]
           /\ frame' = [frame EXCEPT
                  ![t].lots = Tail(@),
                  ![t].remaining_to_sell = @ - amount_to_close]
    /\ pc' = [pc EXCEPT ![t] = "match"]
    /\ UNCHANGED <<db, out, calls, inputs>>

\* The loop's exit (lines 262-264) and the warning of lines 312-314.
EndMatch(t) ==
    /\ pc[t] = "match"
    /\ frame[t].lots = <<>> \/ frame[t].remaining_to_sell <= 0
    /\ pc' = [pc EXCEPT ![t] = "commit"]
    /\ UNCHANGED <<db, pending, frame, out, calls, inputs>>

\* self.conn.commit() and the return (lines 232-233).
Commit(t) ==
    /\ pc[t] = "commit"
    /\ db' = View(t)
    /\ pending' = [pending EXCEPT ![t] = NoTx]
    /\ out' = [out EXCEPT ![t] =
                  [status |-> "returned",
                   args |-> frame[t].args,
                   overlapped |-> frame[t].overlapped,
                   ret |-> [trans_id |-> frame[t].trans_id],
                   warned |-> IF /\ frame[t].args.transaction_type = "SELL"
                                 /\ frame[t].remaining_to_sell > 0
                              THEN frame[t].remaining_to_sell ELSE 0]]
    /\ pc' = [pc EXCEPT ![t] = "idle"]
    /\ frame' = [frame EXCEPT ![t] = NoFrame]
    /\ UNCHANGED <<calls, inputs>>

NextConcurrent ==
    \/ \E t \in inputs.trackers : \E a \in Calls(inputs) : Call(t, a)
    \/ \E t \in inputs.trackers : InsertTransactionStmt(t)
    \/ \E t \in inputs.trackers : DatabaseLocked(t)
    \/ \E t \in inputs.trackers : InsertLotStmt(t)
    \/ \E t \in inputs.trackers : SelectLotsStmt(t)
    \/ \E t \in inputs.trackers : InsertRealizedPnlStmt(t)
    \/ \E t \in inputs.trackers : UpdateLotStmt(t)
    \/ \E t \in inputs.trackers : EndMatch(t)
    \/ \E t \in inputs.trackers : Commit(t)

SpecConcurrent == InitConcurrent /\ [][NextConcurrent]_vars

\* A storage failure (sqlite3.Error) in a statement after the INSERT INTO
\* transactions: record_transaction has no handler, so the exception reaches
\* the caller with the connection left as SQLite leaves it: the failed
\* statement undone and the transaction still open, or, for the errors on which
\* SQLite rolls the transaction back itself, nothing pending.
StorageFailure(t) ==
    /\ pc[t] \in {"insert_lot", "select_lots", "match", "update_lot", "commit"}
    /\ \/ UNCHANGED pending
       \/ pending' = [pending EXCEPT ![t] = NoTx]
    /\ pc' = [pc EXCEPT ![t] = "idle"]
    /\ out' = [out EXCEPT ![t] = [NoOutcome EXCEPT !.status = "raised",
                                                    !.args = frame[t].args,
                                                    !.overlapped = frame[t].overlapped,
                                                    !.ret = [trans_id |-> frame[t].trans_id]]]
    /\ frame' = [frame EXCEPT ![t] = NoFrame]
    /\ UNCHANGED <<db, calls, inputs>>

NextFailing == NextConcurrent \/ \E t \in inputs.trackers : StorageFailure(t)

SpecFailing == InitConcurrent /\ [][NextFailing]_vars

(******************* the ledger on the worked example **********************)
\* The quantities of the worked example: amounts in tenths of a coin, prices
\* per tenth (0.5 @ 50000 is 5 units @ 5000), with every accounting method.
ExampleInputs ==
    [symbols |-> {"BTC"},
     amounts |-> {2, 3, 5},
     quotes |-> {<<5000, 25>>, <<4500, 15>>, <<6000, 12>>},
     times |-> {1},
     external_ids |-> {NULL},
     methods |-> AccountingMethod,
     trackers |-> {1}]

InitExample ==
    /\ db = EmptyDb
    /\ pending = [t \in Trackers |-> NoTx]
    /\ pc = [t \in Trackers |-> "idle"]
    /\ frame = [t \in Trackers |-> NoFrame]
    /\ out = [t \in Trackers |-> NoOutcome]
    /\ calls = 0
    /\ inputs = ExampleInputs

SpecExample == InitExample /\ [][Next]_vars

(****************** the ledger with unvalidated arguments ******************)
\* record_transaction checks none of its arguments (lines 191-197): amount and
\* price_per_unit are any numbers the caller passes, zero and negative included.
UnvalidatedInputs ==
    [symbols |-> {"BTC"},
     amounts |-> -1..MaxAmount,
     quotes |-> {<<1, 0>>, <<-1, 0>>},
     times |-> {1},
     external_ids |-> {NULL},
     methods |-> {"FIFO", "LIFO", "AVERAGE_COST"},
     trackers |-> {1}]

InitUnvalidated ==
    /\ db = EmptyDb
    /\ pending = [t \in Trackers |-> NoTx]
    /\ pc = [t \in Trackers |-> "idle"]
    /\ frame = [t \in Trackers |-> NoFrame]
    /\ out = [t \in Trackers |-> NoOutcome]
    /\ calls = 0
    /\ inputs = UnvalidatedInputs

SpecUnvalidated == InitUnvalidated /\ [][Next]_vars

(************************** transaction_exists *****************************)
\* The empty string, the tx_hash the fetchers give a transaction whose API
\* record has no "hash"; the other external ids are the hashes 1..MaxHash.
EmptyString == -1

\* Python truth of an optional string: None and '' are false.
Truthy(x) == x \notin {NULL, EmptyString}

\* transaction_exists (lines 366-387).
TransactionExists(d, transaction_id) ==
    IF ~Truthy(transaction_id)
    THEN FALSE
    ELSE Len(SelectWhere(d.transactions,
                         LAMBDA r : r.transaction_id # NULL
                                    /\ r.transaction_id = transaction_id)) > 0

\* One transaction_exists call on tracker t.
TransactionExistsCall(t, x) ==
    /\ pc[t] = "idle"
    /\ \A u \in Trackers : pending[u] = NoTx
    /\ out' = [out EXCEPT ![t] =
                  [status |-> "returned",
                   args |-> [transaction_id |-> x],
                   overlapped |-> FALSE,
                   ret |-> [exists |-> TransactionExists(View(t), x)],
                   warned |-> 0]]
    /\ UNCHANGED <<db, pending, pc, frame, calls, inputs>>

\* Records that carry an external id, or none, and lookups of any id.
ExternalIdInputs ==
    [symbols |-> {"BTC"},
     amounts |-> {1},
     quotes |-> {<<1, 0>>},
     times |-> {1},
     external_ids |-> {NULL, EmptyString} \cup (1..MaxHash),
     methods |-> {"FIFO"},
     trackers |-> {1}]

InitExternalId ==
    /\ db = EmptyDb
    /\ pending = [t \in Trackers |-> NoTx]
    /\ pc = [t \in Trackers |-> "idle"]
    /\ frame = [t \in Trackers |-> NoFrame]
    /\ out = [t \in Trackers |-> NoOutcome]
    /\ calls = 0
    /\ inputs = ExternalIdInputs

NextExternalId ==
    \/ \E t \in inputs.trackers : \E a \in Calls(inputs) : RecordTransaction(t, a)
    \/ \E t \in inputs.trackers : \E x \in inputs.external_ids \ {NULL} :
           TransactionExistsCall(t, x)

SpecExternalId == InitExternalId /\ [][NextExternalId]_vars

(************************ the blockchain importers *************************)
\* The importers' default min_confirmations.
MinConfirmations == 1

\* The arguments of the record_transaction call an importer makes for a
\* fetched transaction (lines 208-227): the tracker's default method applies.
ImportedCall(symbol, tx) ==
    [symbol |-> symbol,
     transaction_type |-> IF tx.amount > 0 THEN "BUY" ELSE "SELL",
     amount |-> Abs(tx.amount),
     price_per_unit |-> tx.price,
     fee |-> tx.fee,
     timestamp |-> tx.timestamp,
     transaction_id |-> tx.tx_hash,
     accounting_method |-> "FIFO"]

\* The loop of lines 173-239 over the fetched transactions that are left;
\* tx.price is what get_historical_price_for_date gives for the transaction.
RECURSIVE ImportLoop(_, _, _, _, _)
ImportLoop(d, symbol, txs, skip_existing, stats) ==
    IF txs = <<>> THEN [db |-> d, stats |-> stats]
    ELSE LET tx == Head(txs)
             skip == \/ /\ skip_existing
                        /\ Truthy(tx.tx_hash)
                        /\ TransactionExists(d, tx.tx_hash)
                     \/ tx.confirmations < MinConfirmations
                     \/ tx.timestamp = NULL
                     \/ Abs(tx.amount) = 0
                     \/ tx.price = NULL
         IN  IF skip
             THEN ImportLoop(d, symbol, Tail(txs), skip_existing,
                             [stats EXCEPT !.skipped = @ + 1])
             ELSE ImportLoop(Record(d, ImportedCall(symbol, tx)), symbol, Tail(txs),
                             skip_existing, [stats EXCEPT !.imported = @ + 1])

\* One run of an importer on tracker t over the fetched list txs.
ImportTransactions(t, symbol, txs, skip_existing) ==
    /\ pc[t] = "idle"
    /\ \A u \in Trackers : pending[u] = NoTx
    /\ calls + Len(txs) <= MaxTx
    /\ LET r == ImportLoop(db, symbol, txs, skip_existing,
                           [total |-> Len(txs), imported |-> 0, skipped |-> 0,
                            errors |-> 0])
       IN  /\ db' = r.db
           /\ calls' = calls + r.stats.imported
           /\ out' = [out EXCEPT ![t] =
                         [status |-> "returned",
                          args |-> [symbol |-> symbol, skip_existing |-> skip_existing],
                          overlapped |-> FALSE,
                          ret |-> r.stats,
                          warned |-> 0]]
    /\ UNCHANGED <<pending, pc, frame, inputs>>

\* What a fetcher can return for one transaction: an incoming or outgoing
\* transfer the importer records, whatever its hash, or one it skips for its
\* confirmations, its missing timestamp, its zero net amount or its missing
\* price.
Fetched(in) ==
    { [tx_hash |-> h, amount |-> am, timestamp |-> 1, confirmations |-> 1,
       price |-> 1, fee |-> 0] : h \in in.external_ids, am \in {-1, 1} }
    \cup
    { [tx_hash |-> 1, amount |-> 1, timestamp |-> 1, confirmations |-> 0,
       price |-> 1, fee |-> 0],
      [tx_hash |-> 1, amount |-> 1, timestamp |-> NULL, confirmations |-> 1,
       price |-> 1, fee |-> 0],
      [tx_hash |-> 1, amount |-> 0, timestamp |-> 1, confirmations |-> 1,
       price |-> 1, fee |-> 0],
      [tx_hash |-> 1, amount |-> 1, timestamp |-> 1, confirmations |-> 1,
       price |-> NULL, fee |-> 0] }

\* The fetched lists: up to two transactions.
FetchedLists(in) ==
    {<<>>} \cup {<<x>> : x \in Fetched(in)}
           \cup {<<x, y>> : x \in Fetched(in), y \in Fetched(in)}

ImportInputs ==
    [symbols |-> {"BTC", "ETH"},
     amounts |-> {1},
     quotes |-> {<<1, 0>>},
     times |-> {1},
     external_ids |-> {EmptyString} \cup (1..MaxHash),
     methods |-> {"FIFO"},
     skip_existing |-> {TRUE},
     trackers |-> {1}]

InitImport ==
    /\ db = EmptyDb
    /\ pending = [t \in Trackers |-> NoTx]
    /\ pc = [t \in Trackers |-> "idle"]
    /\ frame = [t \in Trackers |-> NoFrame]
    /\ out = [t \in Trackers |-> NoOutcome]
    /\ calls = 0
    /\ inputs = ImportInputs

NextImport ==
    \E t \in inputs.trackers : \E symbol \in inputs.symbols :
        \E txs \in FetchedLists(inputs) : \E skip_existing \in inputs.skip_existing :
            ImportTransactions(t, symbol, txs, skip_existing)

SpecImport == InitImport /\ [][NextImport]_vars

(************************ calculate_unrealized_pnl **************************)
\* calculate_unrealized_pnl (lines 441-476): <<>> for None, else <<the
\* UnrealizedPnL>>. SUM over no row is NULL, and "not total_amount" also
\* holds for a sum of 0.
CalculateUnrealizedPnl(d, symbol, current_price) ==
    LET open == OpenLotsOf(d, symbol)
        current_amount == PoolAmount(d, symbol)
        total_cost_basis == PoolCost(d, symbol)
        current_value == Q(current_amount * current_price)
        unrealized_gain_loss == QSub(current_value, total_cost_basis)
    IN  IF open = <<>> \/ current_amount = 0
        THEN <<>>
        ELSE << [symbol |-> symbol,
                 current_amount |-> current_amount,
                 average_cost_basis |->
                     IF current_amount > 0
                     THEN QDiv(total_cost_basis, Q(current_amount)) ELSE Q(0),
                 current_price |-> current_price,
                 total_cost_basis |-> total_cost_basis,
                 current_value |-> current_value,
                 unrealized_gain_loss |-> unrealized_gain_loss,
                 unrealized_gain_loss_pct |->
                     IF QPos(total_cost_basis)
                     THEN QMul(QDiv(unrealized_gain_loss, total_cost_basis), Q(100))
                     ELSE Q(0)] >>

\* One calculate_unrealized_pnl call on tracker t.
CalculateUnrealizedPnlCall(t, symbol, current_price) ==
    /\ pc[t] = "idle"
    /\ \A u \in Trackers : pending[u] = NoTx
    /\ out' = [out EXCEPT ![t] =
                  [status |-> "returned",
                   args |-> [symbol |-> symbol, current_price |-> current_price],
                   overlapped |-> FALSE,
                   ret |-> [unrealized |->
                               CalculateUnrealizedPnl(View(t), symbol, current_price)],
                   warned |-> 0]]
    /\ UNCHANGED <<db, pending, pc, frame, calls, inputs>>

\* Records of two symbols with any amount (record_transaction validates
\* none), bought for nothing or at a price, and the prices to value them at.
UnrealizedInputs ==
    [symbols |-> {"BTC", "ETH"},
     amounts |-> -1..MaxAmount,
     quotes |-> {<<0, 0>>, <<2, 1>>},
     times |-> {1},
     external_ids |-> {NULL},
     methods |-> {"FIFO"},
     current_prices |-> {1, 3},
     trackers |-> {1}]

InitUnrealized ==
    /\ db = EmptyDb
    /\ pending = [t \in Trackers |-> NoTx]
    /\ pc = [t \in Trackers |-> "idle"]
    /\ frame = [t \in Trackers |-> NoFrame]
    /\ out = [t \in Trackers |-> NoOutcome]
    /\ calls = 0
    /\ inputs = UnrealizedInputs

NextUnrealized ==
    \/ \E t \in inputs.trackers : \E a \in Calls(inputs) : RecordTransaction(t, a)
    \/ \E t \in inputs.trackers : \E symbol \in inputs.symbols :
           \E current_price \in inputs.current_prices :
               CalculateUnrealizedPnlCall(t, symbol, current_price)

SpecUnrealized == InitUnrealized /\ [][NextUnrealized]_vars

(**************************** generate_tax_report ***************************)
\* Timestamps are whole seconds counted from the first second of year 1, and
\* a model year lasts YearLength of them. strftime("%Y-%m-%d %H:%M:%S")
\* (lines 194, 537-538) writes fixed-width text whose order as text is the
\* order of the seconds it was written from.
YearLength == 2

\* start_date = datetime(year, 1, 1) (line 518).
StartDate(year) == (year - 1) * YearLength + 1

\* Mutant of EndDate: the last second of the year left out.
EndDate_Exclusive(year) == year * YearLength - 1

\* end_date = datetime(year, 12, 31, 23, 59, 59) (line 519).
EndDate(year) == year * YearLength

\* The symbols in the order of ORDER BY symbol (line 535).
SymbolOrder == <<"BTC", "ETH">>

\* The WHERE clause of line 533.
InReport(e, year, method) ==
    /\ e.sale_date >= StartDate(year)
    /\ e.sale_date <= EndDate(year)
    /\ e.accounting_method = method

RealizedGainLossOf(e) == e.realized_gain_loss
CostBasisOf(e) == e.cost_basis
SaleValueOf(e) == e.sale_value

\* One row of the GROUP BY symbol query (lines 524-540) as the dict of lines
\* 553-560; no row for a symbol without a matching entry.
TaxGroup(d, year, method, symbol) ==
    LET rows == SelectWhere(d.realized_pnl,
                    LAMBDA e : e.symbol = symbol /\ InReport(e, year, method))
    IN  IF rows = <<>> THEN <<>>
        ELSE << [symbol |-> symbol,
                 amount_sold |-> SumSeq(Column(rows, LAMBDA e : e.amount)),
                 cost_basis |-> QSumSeq(Column(rows, CostBasisOf)),
                 sale_proceeds |-> QSumSeq(Column(rows, SaleValueOf)),
                 gain_loss |-> QSumSeq(Column(rows, RealizedGainLossOf)),
                 trade_count |-> Len(rows)] >>

RECURSIVE TaxGroups(_, _, _, _)
TaxGroups(d, year, method, symbols) ==
    IF symbols = <<>> THEN <<>>
    ELSE TaxGroup(d, year, method, Head(symbols))
             \o TaxGroups(d, year, method, Tail(symbols))

\* Mutant of QAbs: the sign kept.
QAbs_Signed(x) == x

\* abs(gain_loss) (line 551).
QAbs(x) == <<Abs(x[1]), x[2]>>

\* The loop of lines 546-551 over the groups: the gains and the losses.
RECURSIVE TotalGains(_)
TotalGains(trades) ==
    IF trades = <<>> THEN Q(0)
    ELSE IF QPos(Head(trades).gain_loss)
         THEN QAdd(Head(trades).gain_loss, TotalGains(Tail(trades)))
         ELSE TotalGains(Tail(trades))

RECURSIVE TotalLosses(_)
TotalLosses(trades) ==
    IF trades = <<>> THEN Q(0)
    ELSE IF QPos(Head(trades).gain_loss)
         THEN TotalLosses(Tail(trades))
         ELSE QAdd(QAbs(Head(trades).gain_loss), TotalLosses(Tail(trades)))

TradeCountOf(trade) == trade.trade_count

\* generate_tax_report (lines 510-572); accounting_method is <<>> for None.
GenerateTaxReport(d, year, accounting_method) ==
    LET method == IF accounting_method = <<>> THEN "FIFO" ELSE accounting_method[1]
        trades == TaxGroups(d, year, method, SymbolOrder)
        total_gains == TotalGains(trades)
        total_losses == TotalLosses(trades)
    IN  [year |-> year,
         accounting_method |-> method,
         trades |-> trades,
         total_gains |-> total_gains,
         total_losses |-> total_losses,
         net_gain_loss |-> QSub(total_gains, total_losses),
         total_trades |-> SumSeq(Column(trades, TradeCountOf))]

\* One generate_tax_report call on tracker t.
GenerateTaxReportCall(t, year, accounting_method) ==
    /\ pc[t] = "idle"
    /\ \A u \in Trackers : pending[u] = NoTx
    /\ out' = [out EXCEPT ![t] =
                  [status |-> "returned",
                   args |-> [year |-> year, accounting_method |-> accounting_method],
                   overlapped |-> FALSE,
                   ret |-> [tax_report |->
                               GenerateTaxReport(View(t), year, accounting_method)],
                   warned |-> 0]]
    /\ UNCHANGED <<db, pending, pc, frame, calls, inputs>>

\* Two symbols bought two units at 2 each in the last second of year 1, and
\* sold unit by unit above or below that cost, in that second or in the
\* first of year 2, by FIFO or LIFO; reports of years 1 and 2.
TaxInputs ==
    [symbols |-> {"BTC", "ETH"},
     amounts |-> {1, 2},
     quotes |-> {<<1, 0>>, <<2, 0>>, <<3, 0>>},
     times |-> {YearLength, YearLength + 1},
     external_ids |-> {NULL},
     methods |-> {"FIFO", "LIFO"},
     years |-> {1, 2},
     trackers |-> {1}]

TaxCalls(in) ==
    {a \in Calls(in) :
        IF a.transaction_type = "BUY"
        THEN a.amount = 2 /\ a.price_per_unit = 2 /\ a.timestamp = YearLength
        ELSE a.amount = 1 /\ a.price_per_unit # 2}

InitTax ==
    /\ db = EmptyDb
    /\ pending = [t \in Trackers |-> NoTx]
    /\ pc = [t \in Trackers |-> "idle"]
    /\ frame = [t \in Trackers |-> NoFrame]
    /\ out = [t \in Trackers |-> NoOutcome]
    /\ calls = 0
    /\ inputs = TaxInputs

NextTax ==
    \/ \E t \in inputs.trackers : \E a \in TaxCalls(inputs) : RecordTransaction(t, a)
    \/ \E t \in inputs.trackers : \E year \in inputs.years :
           \E m \in {<<>>} \cup {<<x>> : x \in inputs.methods} :
               GenerateTaxReportCall(t, year, m)

SpecTax == InitTax /\ [][NextTax]_vars

(******************************* the price feed ****************************)
\* The retry counts tried: 0..MaxRetry.
MaxRetry == 2

\* COIN_IDS (constants.py lines 9-20), for the symbols of the model.
CoinIds == [BTC |-> "bitcoin", ETH |-> "ethereum"]

\* An empty dict of prices or of results.
NoPrices == [s \in {} |-> 0]

\* coin_ids (lines 636-637).
CoinIdsOf(symbols) == { CoinIds[s] : s \in symbols \cap DOMAIN CoinIds }

\* next((s for s, cid in COIN_IDS.items() if cid == coin["id"]), None)
\* (lines 687-688): <<>> for None.
SymbolOfCoin(id) ==
    IF \E s \in DOMAIN CoinIds : CoinIds[s] = id
    THEN << CHOOSE s \in DOMAIN CoinIds : CoinIds[s] = id >>
    ELSE <<>>

\* prices[symbol] = ... (line 690).
Put(prices, symbol, price) ==
    [s \in DOMAIN prices \cup {symbol} |-> IF s = symbol THEN price ELSE prices[s]]

\* The loop of lines 685-690 over the coins of the answer.
RECURSIVE Organize(_, _)
Organize(data, prices) ==
    IF data = <<>> THEN prices
    ELSE LET symbol == SymbolOfCoin(Head(data).id)
         IN  Organize(Tail(data),
                      IF symbol # <<>>
                      THEN Put(prices, symbol[1], Head(data).current_price)
                      ELSE prices)

\* Mutant of Attempts: one attempt more than asked for.
Attempts_OneMore(retry_count) == 0..retry_count

\* range(retry_count) (line 653).
Attempts(retry_count) == 0..(retry_count - 1)

\* The loop of lines 653-682 from one attempt on. responses[n] is what the
\* service answers to the n-th request: "429", "error" (a
\* RequestException: no answer, or raise_for_status on an error status) or
\* "ok" with the coins. The result has the prices returned and the number of
\* requests sent.
RECURSIVE Request(_, _, _)
Request(retry_count, responses, attempt) ==
    IF attempt \notin Attempts(retry_count)
    THEN [prices |-> NoPrices, requests |-> attempt]
    ELSE LET response == responses[attempt + 1]
         IN  IF response.status = "429"
             THEN IF attempt < retry_count - 1
                  THEN Request(retry_count, responses, attempt + 1)
                  ELSE [prices |-> NoPrices, requests |-> attempt + 1]
             ELSE IF response.status = "error"
             THEN IF attempt < retry_count - 1
                  THEN Request(retry_count, responses, attempt + 1)
                  ELSE [prices |-> NoPrices, requests |-> attempt + 1]
             ELSE [prices |-> Organize(response.data, NoPrices),
                   requests |-> attempt + 1]

\* fetch_current_prices (lines 621-692).
FetchCurrentPrices(symbols, retry_count, responses) ==
    IF CoinIdsOf(symbols) = {}
    THEN [prices |-> NoPrices, requests |-> 0]
    ELSE Request(retry_count, responses, 0)

\* Mutant of AfterSelect: the rows deleted.
AfterSelect_Emptied(d) == EmptyDb

\* What a SELECT leaves of the rows (lines 380, 450, 502, 524, 578, 713):
\* the rows.
AfterSelect(d) == d

\* One fetch_current_prices call on tracker t.
FetchCurrentPricesCall(t, symbols, retry_count, responses) ==
    /\ pc[t] = "idle"
    /\ \A u \in Trackers : pending[u] = NoTx
    /\ out' = [out EXCEPT ![t] =
                  [status |-> "returned",
                   args |-> [symbols |-> symbols, retry_count |-> retry_count,
                             responses |-> responses],
                   overlapped |-> FALSE,
                   ret |-> [fetched |->
                               FetchCurrentPrices(symbols, retry_count, responses)],
                   warned |-> 0]]
    /\ UNCHANGED <<db, pending, pc, frame, calls, inputs>>

(******************************** the reports *******************************)
\* SELECT DISTINCT symbol FROM cost_basis_lots WHERE is_closed = 0
\* (lines 713-718).
OpenSymbols(d) ==
    { d.cost_basis_lots[j].symbol :
        j \in { i \in DOMAIN d.cost_basis_lots : d.cost_basis_lots[i].is_closed = 0 } }

\* calculate_unrealized_pnl_with_prices (lines 694-734): symbols is <<>> for
\* None, else <<the symbols>>; the result is the dict of line 727.
CalculateUnrealizedPnlWithPrices(d, symbols, retry_count, responses) ==
    LET asked == IF symbols = <<>> THEN OpenSymbols(d) ELSE symbols[1]
        prices == IF asked = {} THEN NoPrices
                  ELSE FetchCurrentPrices(asked, retry_count, responses).prices
        kept == { s \in asked \cap DOMAIN prices :
                     CalculateUnrealizedPnl(d, s, prices[s]) # <<>> }
    IN  [s \in kept |-> CalculateUnrealizedPnl(d, s, prices[s])[1]]

\* calculate_realized_pnl (lines 478-508): each filter is <<>> for None.
CalculateRealizedPnl(d, symbol, start_date, end_date) ==
    LET rows == SelectWhere(d.realized_pnl,
                    LAMBDA e : /\ symbol # <<>> => e.symbol = symbol[1]
                               /\ start_date # <<>> => e.sale_date >= start_date[1]
                               /\ end_date # <<>> => e.sale_date <= end_date[1])
    IN  [total_realized_pnl |-> QSumSeq(Column(rows, RealizedGainLossOf)),
         trade_count |-> Len(rows)]

\* get_portfolio_cost_basis (lines 574-600).
GetPortfolioCostBasis(d) ==
    [s \in OpenSymbols(d) |->
        [amount |-> PoolAmount(d, s),
         total_cost_basis |-> PoolCost(d, s),
         average_cost_per_unit |->
             IF PoolAmount(d, s) > 0
             THEN QDiv(PoolCost(d, s), Q(PoolAmount(d, s))) ELSE Q(0)]]

\* sum(... for pnl in unrealized_pnl.values()) (lines 758-760) of one field.
RECURSIVE SumValues(_, _, _)
SumValues(unrealized_pnl, symbols, field) ==
    IF symbols = {} THEN Q(0)
    ELSE LET s == CHOOSE x \in symbols : TRUE
         IN  QAdd(unrealized_pnl[s][field],
                  SumValues(unrealized_pnl, symbols \ {s}, field))

\* get_portfolio_pnl_summary (lines 736-771).
GetPortfolioPnlSummary(d, symbols, retry_count, responses) ==
    LET unrealized_pnl ==
            CalculateUnrealizedPnlWithPrices(d, symbols, retry_count, responses)
        realized_pnl == CalculateRealizedPnl(d, <<>>, <<>>, <<>>)
        total_unrealized_gain_loss ==
            SumValues(unrealized_pnl, DOMAIN unrealized_pnl, "unrealized_gain_loss")
        total_cost_basis ==
            SumValues(unrealized_pnl, DOMAIN unrealized_pnl, "total_cost_basis")
        total_current_value ==
            SumValues(unrealized_pnl, DOMAIN unrealized_pnl, "current_value")
    IN  [unrealized_pnl |-> unrealized_pnl,
         realized_pnl |-> realized_pnl,
         total_unrealized_gain_loss |-> total_unrealized_gain_loss,
         total_realized_gain_loss |-> realized_pnl.total_realized_pnl,
         total_gain_loss |->
             QAdd(total_unrealized_gain_loss, realized_pnl.total_realized_pnl),
         total_cost_basis |-> total_cost_basis,
         total_current_value |-> total_current_value,
         total_return_pct |->
             IF QPos(total_cost_basis)
             THEN QMul(QDiv(QSub(total_current_value, total_cost_basis),
                            total_cost_basis), Q(100))
             ELSE Q(0)]

\* One call of a method that runs SELECTs only, on tracker t: ret is what it
\* returns.
Read(t, args, ret) ==
    /\ pc[t] = "idle"
    /\ \A u \in Trackers : pending[u] = NoTx
    /\ out' = [out EXCEPT ![t] =
                  [status |-> "returned", args |-> args, overlapped |-> FALSE,
                   ret |-> ret, warned |-> 0]]
    /\ db' = AfterSelect(db)
    /\ UNCHANGED <<pending, pc, frame, calls, inputs>>

CalculateUnrealizedPnlWithPricesCall(t, symbols, retry_count, responses) ==
    Read(t, [symbols |-> symbols, retry_count |-> retry_count,
             responses |-> responses],
         [unrealized_with_prices |->
             CalculateUnrealizedPnlWithPrices(View(t), symbols, retry_count, responses)])

GetPortfolioPnlSummaryCall(t, symbols, retry_count, responses) ==
    Read(t, [symbols |-> symbols, retry_count |-> retry_count,
             responses |-> responses],
         [summary |-> GetPortfolioPnlSummary(View(t), symbols, retry_count, responses)])

CalculateRealizedPnlCall(t, symbol, start_date, end_date) ==
    Read(t, [symbol |-> symbol, start_date |-> start_date, end_date |-> end_date],
         [realized |-> CalculateRealizedPnl(View(t), symbol, start_date, end_date)])

GetPortfolioCostBasisCall(t) ==
    Read(t, [none |-> NULL], [cost_basis |-> GetPortfolioCostBasis(View(t))])

TaxReportRead(t, year, accounting_method) ==
    Read(t, [year |-> year, accounting_method |-> accounting_method],
         [tax_report |-> GenerateTaxReport(View(t), year, accounting_method)])

UnrealizedPnlRead(t, symbol, current_price) ==
    Read(t, [symbol |-> symbol, current_price |-> current_price],
         [unrealized |-> CalculateUnrealizedPnl(View(t), symbol, current_price)])

TransactionExistsRead(t, x) ==
    Read(t, [transaction_id |-> x], [exists |-> TransactionExists(View(t), x)])

\* What the service may answer to one request.
Answers(in) ==
    { [status |-> s, data |-> <<>>] : s \in {"429", "error"} }
    \cup { [status |-> "ok", data |-> data] : data \in in.data }

\* The answers to the first MaxRetry requests.
AnswerLists(in) == [1..MaxRetry -> Answers(in)]

\* Lists of symbols to price, retry counts, and a price service that answers
\* with a price for BTC only or for both.
FeedInputs ==
    [symbols |-> {"BTC", "ETH"},
     amounts |-> {1},
     quotes |-> {<<2, 1>>},
     times |-> {1},
     external_ids |-> {NULL},
     methods |-> {"FIFO"},
     retry_counts |-> 0..MaxRetry,
     data |-> { << [id |-> "bitcoin", current_price |-> 3] >>,
                << [id |-> "bitcoin", current_price |-> 3],
                   [id |-> "ethereum", current_price |-> 3] >> },
     trackers |-> {1}]

InitFeed ==
    /\ db = EmptyDb
    /\ pending = [t \in Trackers |-> NoTx]
    /\ pc = [t \in Trackers |-> "idle"]
    /\ frame = [t \in Trackers |-> NoFrame]
    /\ out = [t \in Trackers |-> NoOutcome]
    /\ calls = 0
    /\ inputs = FeedInputs

NextFeed ==
    \E t \in inputs.trackers : \E symbols \in SUBSET inputs.symbols :
        \E retry_count \in inputs.retry_counts :
            \E responses \in AnswerLists(inputs) :
                FetchCurrentPricesCall(t, symbols, retry_count, responses)

SpecFeed == InitFeed /\ [][NextFeed]_vars

\* Two symbols bought and sold one unit at a time, every reader, and a price
\* service that is asked up to MaxRetry times for the open symbols or for
\* ETH, and answers with a price for BTC only or for both.
ReportInputs ==
    [symbols |-> {"BTC", "ETH"},
     amounts |-> {1},
     quotes |-> {<<2, 1>>},
     times |-> {1},
     external_ids |-> {NULL, 1},
     methods |-> {"FIFO"},
     asked |-> {{"ETH"}},
     retry_counts |-> {MaxRetry},
     data |-> { << [id |-> "bitcoin", current_price |-> 3] >>,
                << [id |-> "bitcoin", current_price |-> 3],
                   [id |-> "ethereum", current_price |-> 3] >> },
     years |-> {1},
     current_prices |-> {3},
     trackers |-> {1}]

ReportCalls(in) == {a \in Calls(in) : a.transaction_id = NULL}

InitReports ==
    /\ db = EmptyDb
    /\ pending = [t \in Trackers |-> NoTx]
    /\ pc = [t \in Trackers |-> "idle"]
    /\ frame = [t \in Trackers |-> NoFrame]
    /\ out = [t \in Trackers |-> NoOutcome]
    /\ calls = 0
    /\ inputs = ReportInputs

NextReports ==
    \/ \E t \in inputs.trackers : \E a \in ReportCalls(inputs) : RecordTransaction(t, a)
    \/ \E t \in inputs.trackers :
           \E symbols \in {<<>>} \cup {<<x>> : x \in inputs.asked} :
               \E retry_count \in inputs.retry_counts :
                   \E responses \in AnswerLists(inputs) :
                       CalculateUnrealizedPnlWithPricesCall(t, symbols, retry_count, responses)
    \/ \E t \in inputs.trackers :
           \E symbols \in {<<>>} \cup {<<x>> : x \in inputs.asked} :
               \E retry_count \in inputs.retry_counts :
                   \E responses \in AnswerLists(inputs) :
                       GetPortfolioPnlSummaryCall(t, symbols, retry_count, responses)
    \/ \E t \in inputs.trackers :
           \E symbol \in {<<>>} \cup {<<x>> : x \in inputs.symbols} :
               \E start_date, end_date \in {<<>>} \cup {<<x>> : x \in inputs.times} :
                   CalculateRealizedPnlCall(t, symbol, start_date, end_date)
    \/ \E t \in inputs.trackers : GetPortfolioCostBasisCall(t)
    \/ \E t \in inputs.trackers : \E year \in inputs.years :
           \E m \in {<<>>} \cup {<<x>> : x \in inputs.methods} :
               TaxReportRead(t, year, m)
    \/ \E t \in inputs.trackers : \E symbol \in inputs.symbols :
           \E current_price \in inputs.current_prices :
               UnrealizedPnlRead(t, symbol, current_price)
    \/ \E t \in inputs.trackers : \E x \in inputs.external_ids :
           TransactionExistsRead(t, x)

SpecReports == InitReports /\ [][NextReports]_vars

(********************* fetch_bitcoin_balance_from_xpub **********************)
\* num_addresses=50 (blockchain_balance_fetcher.py line 197).
NumAddresses == 50

\* max_consecutive_empty (line 206).
MaxConsecutiveEmpty == 10

\* batch_size (line 209).
BatchSize == 5

\* The loop of lines 210-235 from the k-th address on (k from 1): balances[k]
\* is what fetch_bitcoin_balance_single answers for it, checked counts the
\* addresses asked about. The early stop of lines 229-231 is looked at after
\* the last address of a batch.
RECURSIVE CheckAddresses(_, _, _)
CheckAddresses(balances, k, acc) ==
    IF k > Len(balances) THEN acc
    ELSE LET balance == balances[k]
             acc1 == IF balance > 0
                     THEN [total_balance |-> acc.total_balance + balance,
                           addresses_with_balance |-> acc.addresses_with_balance + 1,
                           consecutive_empty |-> 0,
                           checked |-> acc.checked + 1]
                     ELSE [acc EXCEPT !.consecutive_empty = @ + 1,
                                      !.checked = @ + 1]
             batch_done == k % BatchSize = 0 \/ k = Len(balances)
         IN  IF /\ batch_done
                /\ acc1.consecutive_empty >= MaxConsecutiveEmpty
                /\ acc1.addresses_with_balance > 0
             THEN acc1
             ELSE CheckAddresses(balances, k + 1, acc1)

\* fetch_bitcoin_balance_from_xpub (lines 186-242) when the xpub gives the
\* addresses 1..Len(balances): balance is <<>> for None.
FetchBitcoinBalanceFromXpub(balances) ==
    IF balances = <<>>
    THEN [balance |-> <<>>, checked |-> 0]
    ELSE LET acc == CheckAddresses(balances, 1,
                        [total_balance |-> 0, addresses_with_balance |-> 0,
                         consecutive_empty |-> 0, checked |-> 0])
         IN  [balance |-> << IF acc.total_balance > 0 THEN acc.total_balance ELSE 0 >>,
              checked |-> acc.checked]

\* The balances of num addresses of which those in funded hold one unit.
BalancesOf(num, funded) == [k \in 1..num |-> IF k \in funded THEN 1 ELSE 0]

\* One fetch_bitcoin_balance_from_xpub call by the owner of tracker t.
FetchBitcoinBalanceFromXpubCall(t, num, funded) ==
    /\ pc[t] = "idle"
    /\ out' = [out EXCEPT ![t] =
                  [status |-> "returned",
                   args |-> [num_addresses |-> num, funded |-> funded],
                   overlapped |-> FALSE,
                   ret |-> [xpub |-> FetchBitcoinBalanceFromXpub(BalancesOf(num, funded))],
                   warned |-> 0]]
    /\ UNCHANGED <<db, pending, pc, frame, calls, inputs>>

\* An xpub that gives no address or all NumAddresses of them, funded at any
\* of a few places: the first addresses, both sides of a batch boundary, past
\* a run of MaxConsecutiveEmpty empty ones, and the last.
XpubInputs ==
    [symbols |-> {"BTC"},
     amounts |-> {1},
     quotes |-> {<<1, 0>>},
     times |-> {1},
     external_ids |-> {NULL},
     methods |-> {"FIFO"},
     derived |-> {0, NumAddresses},
     funded |-> {1, 2, BatchSize, BatchSize + 1, 3 * BatchSize + 1,
                 4 * BatchSize, NumAddresses},
     trackers |-> {1}]

InitXpub ==
    /\ db = EmptyDb
    /\ pending = [t \in Trackers |-> NoTx]
    /\ pc = [t \in Trackers |-> "idle"]
    /\ frame = [t \in Trackers |-> NoFrame]
    /\ out = [t \in Trackers |-> NoOutcome]
    /\ calls = 0
    /\ inputs = XpubInputs

NextXpub ==
    \E t \in inputs.trackers : \E num \in inputs.derived :
        \E funded \in SUBSET inputs.funded :
            FetchBitcoinBalanceFromXpubCall(t, num, funded)

SpecXpub == InitXpub /\ [][NextXpub]_vars

(************************ reading the ledger *******************************)
Txs == db.transactions
Lots == db.cost_basis_lots
Pnl == db.realized_pnl

AmountOf(r) == r.amount

\* Total amount of the symbol's transactions of one type among the first n.
Traded(d, symbol, type, n) ==
    SumSeq(Column(SelectWhere(SubSeq(d.transactions, 1, n),
                              LAMBDA r : r.symbol = symbol /\ r.transaction_type = type),
                  AmountOf))

Bought(d, symbol) == Traded(d, symbol, "BUY", Len(d.transactions))
Sold(d, symbol) == Traded(d, symbol, "SELL", Len(d.transactions))

\* The realized entries sell k created.
EntriesOf(d, k) == SelectWhere(d.realized_pnl, LAMBDA e : e.sell_transaction_id = k)

RealizedAmount(d, k) == SumSeq(Column(EntriesOf(d, k), AmountOf))

\* A step that is one whole committed record_transaction of tracker t.
Recorded(t) ==
    /\ Len(db'.transactions) = Len(db.transactions) + 1
    /\ out'[t].status = "returned"
    /\ out'[t].ret.trans_id = Len(db'.transactions)

(***************************** the claims **********************************)
\* C1: after every committed record_transaction, for every symbol the sum of
\* the remaining amounts of the non-closed lots equals the amount bought minus
\* the amount sold.
C1_OpenLotsEqualNetHeld ==
    \A s \in inputs.symbols : PoolAmount(db, s) = Bought(db, s) - Sold(db, s)

\* Sell k is the first SELL of its symbol and is covered by the BUYs before it.
FirstCoveredSell(k) ==
    /\ Txs[k].transaction_type = "SELL"
    /\ Traded(db, Txs[k].symbol, "SELL", k - 1) = 0
    /\ Txs[k].amount <= Traded(db, Txs[k].symbol, "BUY", k - 1)

\* C2: for BUYs of a symbol followed by one SELL of at most the total bought,
\* under each accounting method, the amounts of the sell's realized entries
\* sum exactly to the sell amount.
C2_RealizedAmountsSumToSell ==
    \A k \in DOMAIN Txs :
        FirstCoveredSell(k) => RealizedAmount(db, k) = Txs[k].amount

\* A covered first sell that consumed two lots.
C2_Witness ==
    \E k \in DOMAIN Txs : FirstCoveredSell(k) /\ Len(EntriesOf(db, k)) = 2

\* The amount of tracker t's last sell that no realized entry covers.
Unmatched(t) ==
    out[t].args.amount - RealizedAmount(db, out[t].ret.trans_id)

\* C3: a SELL that exceeds the symbol's open lots is flagged as unresolved:
\* the value record_transaction returns, or the committed transaction row,
\* carries the unmatched remainder.
C3_OversellFlagged ==
    \A t \in Trackers :
        (/\ out[t].status = "returned"
         /\ out[t].args.transaction_type = "SELL"
         /\ Unmatched(t) > 0)
        => \/ /\ "unresolved_amount" \in DOMAIN out[t].ret
              /\ out[t].ret.unresolved_amount = Unmatched(t)
           \/ /\ "unresolved_amount" \in DOMAIN Txs[out[t].ret.trans_id]
              /\ Txs[out[t].ret.trans_id].unresolved_amount = Unmatched(t)

\* The realized amounts of the symbol's sells, in all and per lot.
RealizedOf(d, symbol) ==
    SumSeq(Column(SelectWhere(d.realized_pnl, LAMBDA e : e.symbol = symbol), AmountOf))

RealizedOnLot(d, j) ==
    SumSeq(Column(SelectWhere(d.realized_pnl, LAMBDA e : e.lot_id = j), AmountOf))

\* Tracker t's step is the commit that ends its record_transaction.
Commits(t) == pc[t] = "commit" /\ pc'[t] = "idle" /\ out'[t].status = "returned"

\* Tracker t's step is a SELL's record_transaction raising after its INSERT
\* INTO transactions.
FailsInSell(t) ==
    /\ pc[t] \notin {"idle", "insert_transaction"}
    /\ pc'[t] = "idle"
    /\ out'[t].status = "raised"
    /\ frame[t].args.transaction_type = "SELL"

\* C4: when a storage failure interrupts record_transaction for a SELL after
\* the transaction row is inserted and before the commit, none of the sell's
\* lot updates and realized entries is observed by later operations on the
\* tracker or committed, also after a later successful record_transaction:
\* the failure leaves the connection with no open transaction, or seeing the
\* lots and the realized entries as they were before the sell, and a commit
\* publishes only realized entries of the call that commits.
C4_FailedSellLeavesNoTrace ==
    /\ [][ \A t \in Trackers :
              FailsInSell(t) =>
                  \/ pending'[t] = NoTx
                  \/ /\ View(t)'.cost_basis_lots = frame[t].before.cost_basis_lots
                     /\ View(t)'.realized_pnl = frame[t].before.realized_pnl
         ]_vars
    /\ [][ \A t \in Trackers :
              Commits(t) =>
                  \A i \in DOMAIN db'.realized_pnl :
                      \/ i \in DOMAIN db.realized_pnl
                      \/ db'.realized_pnl[i].sell_transaction_id = frame[t].trans_id
         ]_vars

\* Both trackers have returned from SELLs of the symbol that ran concurrently.
ConcurrentSells(symbol) ==
    \A t \in Trackers :
        /\ pc[t] = "idle"
        /\ out[t].status = "returned"
        /\ out[t].overlapped
        /\ out[t].args.transaction_type = "SELL"
        /\ out[t].args.symbol = symbol

\* C5: when two trackers on one database record a SELL of the same symbol
\* concurrently, in every interleaving the committed result is that of the
\* two sells run one after the other: each commit publishes what the whole
\* call does to the committed ledger, no quantity of a lot is matched by both
\* sells, and the open remaining amounts sum to bought minus sold.
C5_ConcurrentSellsSerialized ==
    /\ [][ \A t \in Trackers : Commits(t) => db' = Record(db, frame[t].args) ]_vars
    /\ [](\A s \in inputs.symbols :
            ConcurrentSells(s) =>
                /\ RealizedOf(db, s) <= Bought(db, s)
                /\ \A j \in DOMAIN Lots :
                      RealizedOnLot(db, j) <= Txs[Lots[j].transaction_id].amount
                /\ PoolAmount(db, s) = Bought(db, s) - Sold(db, s))

\* The sell that closed lot l: the last one with a realized entry on it.
ClosingSell(l) ==
    LET sells == {Pnl[i].sell_transaction_id : i \in {j \in DOMAIN Pnl : Pnl[j].lot_id = l.id}}
    IN  CHOOSE k \in sells : \A m \in sells : m <= k

\* Lot l existed and was open when sell k ran.
OpenAt(l, k) ==
    /\ l.transaction_id < k
    /\ l.is_closed = 0 \/ ClosingSell(l) >= k

\* Every realized entry of a sell under method is on a lot all of whose
\* predecessors (by Before, among the symbol's lots open at the sell) the same
\* sell consumed in full and closed.
ConsumedInOrder(method, Before(_, _)) ==
    \A i \in DOMAIN Pnl :
        Pnl[i].accounting_method = method =>
            \A j \in DOMAIN Lots :
                (/\ Lots[j].symbol = Pnl[i].symbol
                 /\ OpenAt(Lots[j], Pnl[i].sell_transaction_id)
                 /\ Before(Lots[j], Lots[Pnl[i].lot_id]))
                => /\ Lots[j].is_closed = 1
                   /\ ClosingSell(Lots[j]) = Pnl[i].sell_transaction_id
                   /\ \E n \in DOMAIN Pnl :
                          /\ Pnl[n].sell_transaction_id = Pnl[i].sell_transaction_id
                          /\ Pnl[n].lot_id = j
                          /\ Pnl[n].amount = Lots[j].amount

\* C6: a FIFO SELL consumes the symbol's open lots strictly in ascending
\* (purchase date, lot id) order and a LIFO SELL in descending order, the
\* purchase date being the BUY's timestamp: a lot gets a realized entry only
\* if the sell consumed and closed every open lot that precedes it.
C6_LotsConsumedInDateOrder ==
    /\ ConsumedInOrder("FIFO", LAMBDA x, y :
            \/ Txs[x.transaction_id].timestamp < Txs[y.transaction_id].timestamp
            \/ /\ Txs[x.transaction_id].timestamp = Txs[y.transaction_id].timestamp
               /\ x.id < y.id)
    /\ ConsumedInOrder("LIFO", LAMBDA x, y :
            \/ Txs[x.transaction_id].timestamp > Txs[y.transaction_id].timestamp
            \/ /\ Txs[x.transaction_id].timestamp = Txs[y.transaction_id].timestamp
               /\ x.id > y.id)

\* A FIFO sell that consumed a backdated lot before a lot inserted earlier.
C6_Witness ==
    \E i, n \in DOMAIN Pnl :
        /\ Pnl[i].accounting_method = "FIFO"
        /\ Pnl[n].sell_transaction_id = Pnl[i].sell_transaction_id
        /\ i < n
        /\ Pnl[i].lot_id > Pnl[n].lot_id

\* The arguments and the transaction id of the call a Recorded(t) step made.
CallOf(t) == out'[t].args
IdOf(t) == out'[t].ret.trans_id

\* The ledger after BUY 0.5 @ 50000 fee 25, BUY 0.3 @ 45000 fee 15 and
\* SELL 0.2 @ 60000 fee 12 under method, in tenths of a coin.
WorkedExample(method) ==
    /\ Len(Txs) = 3
    /\ \A k \in 1..3 :
          <<Txs[k].transaction_type, Txs[k].amount, Txs[k].price_per_unit, Txs[k].fee>>
              = << <<"BUY", 5, 5000, 25>>, <<"BUY", 3, 4500, 15>>,
                   <<"SELL", 2, 6000, 12>> >>[k]
    /\ out[1].args.accounting_method = method

ExampleAverageCost ==
    WorkedExample("AVERAGE_COST")
    => /\ Len(Pnl) = 1
       /\ Pnl[1].cost_basis = Q(9635)
       /\ Pnl[1].realized_gain_loss = Q(2353)

\* C7: an AVERAGE_COST SELL of amount a against a symbol with k >= 1 open lots
\* creates exactly one realized entry, whose cost basis is min(a, pool amount)
\* times (sum of total cost / sum of remaining amounts) of the open lots; in
\* the worked example the cost basis is 9635 and the realized gain 2353.
C7_AverageCostOneBlendedEntry ==
    [][ /\ \A t \in Trackers :
            (/\ Recorded(t)
             /\ CallOf(t).transaction_type = "SELL"
             /\ CallOf(t).accounting_method = "AVERAGE_COST"
             /\ OpenLotsOf(db, CallOf(t).symbol) # <<>>)
            => LET s == CallOf(t).symbol
                   entries == EntriesOf(db', IdOf(t))
               IN  /\ Len(entries) = 1
                   /\ Len(db'.realized_pnl) = Len(db.realized_pnl) + 1
                   /\ entries[1].cost_basis =
                        QDiv(QMul(Q(Min(CallOf(t).amount, PoolAmount(db, s))),
                                  PoolCost(db, s)),
                             Q(PoolAmount(db, s)))
        /\ ExampleAverageCost'
      ]_vars

\* The worked example's AVERAGE_COST sell over its two open lots.
C7_Witness == WorkedExample("AVERAGE_COST") /\ Len(Pnl) = 1

\* C8: after an AVERAGE_COST SELL of amount a that is at most the pool amount,
\* the symbol's open lots together hold a less remaining amount than before
\* and their summed total cost is lower by the cost basis consumed.
C8_AverageCostSellReducesPool ==
    [][ \A t \in Trackers :
            (/\ Recorded(t)
             /\ CallOf(t).transaction_type = "SELL"
             /\ CallOf(t).accounting_method = "AVERAGE_COST"
             /\ CallOf(t).amount <= PoolAmount(db, CallOf(t).symbol))
            => LET s == CallOf(t).symbol
                   consumed == QSumSeq(Column(EntriesOf(db', IdOf(t)),
                                              LAMBDA e : e.cost_basis))
               IN  /\ PoolAmount(db', s) = PoolAmount(db, s) - CallOf(t).amount
                   /\ PoolCost(db', s) = QSub(PoolCost(db, s), consumed)
      ]_vars

\* Sell k ran under FIFO or LIFO and its entries cover its whole amount.
CoveredFifoLifoSell(k) ==
    /\ Txs[k].transaction_type = "SELL"
    /\ EntriesOf(db, k) # <<>>
    /\ \A i \in DOMAIN EntriesOf(db, k) :
          EntriesOf(db, k)[i].accounting_method \in {"FIFO", "LIFO"}
    /\ RealizedAmount(db, k) = Txs[k].amount

\* C9: for a fully covered FIFO or LIFO SELL of amount s, price p and fee f,
\* each realized entry that consumes c from a lot with cost-per-unit u has
\* cost basis c*u, sale value c*p and gain c*p - c*u - f*c/s; the allocated
\* fees sum to f and the gains to s*p - (cost basis consumed) - f.
C9_RealizedGainFormula ==
    \A k \in DOMAIN Txs :
        CoveredFifoLifoSell(k) =>
            LET tx == Txs[k]
                entries == EntriesOf(db, k)
                Fee(e) == QSub(QSub(e.sale_value, e.cost_basis), e.realized_gain_loss)
            IN  /\ \A i \in DOMAIN entries :
                      LET e == entries[i]
                          c == e.amount
                          u == Lots[e.lot_id].cost_per_unit
                      IN  /\ e.cost_basis = QMul(Q(c), u)
                          /\ e.sale_value = Q(c * tx.price_per_unit)
                          /\ e.realized_gain_loss =
                               QSub(QSub(Q(c * tx.price_per_unit), QMul(Q(c), u)),
                                    Norm(tx.fee * c, tx.amount))
                /\ QSumSeq(Column(entries, Fee)) = Q(tx.fee)
                /\ QSumSeq(Column(entries, LAMBDA e : e.realized_gain_loss))
                     = QSub(QSub(Q(tx.amount * tx.price_per_unit),
                                 QSumSeq(Column(entries, LAMBDA e : e.cost_basis))),
                            Q(tx.fee))

\* A covered sell with a fee that is split over two lots.
C9_Witness ==
    \E k \in DOMAIN Txs :
        CoveredFifoLifoSell(k) /\ Len(EntriesOf(db, k)) = 2 /\ Txs[k].fee > 0

\* Lots and BUY transactions correspond one to one: each lot is owned by a
\* BUY of its symbol and keeps that BUY's date and cost per unit.
LotsMatchBuys ==
    /\ \A j \in DOMAIN Lots :
          /\ Lots[j].transaction_id \in DOMAIN Txs
          /\ LET tx == Txs[Lots[j].transaction_id]
             IN  /\ tx.transaction_type = "BUY"
                 /\ tx.symbol = Lots[j].symbol
                 /\ Lots[j].purchase_date = tx.timestamp
                 /\ Lots[j].cost_per_unit =
                      Norm(tx.amount * tx.price_per_unit + tx.fee, tx.amount)
    /\ \A k \in DOMAIN Txs :
          Txs[k].transaction_type = "BUY" =>
              Cardinality({j \in DOMAIN Lots : Lots[j].transaction_id = k}) = 1
    /\ \A i \in DOMAIN Pnl :
          Txs[Pnl[i].sell_transaction_id].transaction_type = "SELL"

\* C10: every BUY record adds exactly one transaction and exactly one new
\* open lot owned by it, with remaining amount = amount, total cost =
\* amount*price + fee and cost-per-unit = (amount*price + fee)/amount, and no
\* realized entry; a SELL creates no lot; so lots correspond one to one to the
\* BUY transactions of the same symbol.
C10_BuyOpensExactlyOneLot ==
    /\ []LotsMatchBuys
    /\ [][ \A t \in Trackers :
              Recorded(t) =>
                  LET a == CallOf(t)
                      k == IdOf(t)
                      n == Len(db.cost_basis_lots)
                  IN  /\ SubSeq(db'.transactions, 1, k - 1) = db.transactions
                      /\ IF a.transaction_type = "BUY"
                         THEN /\ db'.realized_pnl = db.realized_pnl
                              /\ Len(db'.cost_basis_lots) = n + 1
                              /\ SubSeq(db'.cost_basis_lots, 1, n) = db.cost_basis_lots
                              /\ LET lot == db'.cost_basis_lots[n + 1]
                                 IN  /\ lot.transaction_id = k
                                     /\ lot.symbol = a.symbol
                                     /\ lot.is_closed = 0
                                     /\ lot.amount = a.amount
                                     /\ lot.total_cost =
                                          Q(a.amount * a.price_per_unit + a.fee)
                                     /\ lot.cost_per_unit =
                                          Norm(a.amount * a.price_per_unit + a.fee,
                                               a.amount)
                         ELSE Len(db'.cost_basis_lots) = n
          ]_vars

\* A BUY recorded after a SELL: its lot's id differs from its transaction's.
C10_Witness ==
    \E j \in DOMAIN Lots :
        /\ Lots[j].transaction_id > j
        /\ Lots[j].is_closed = 0
        /\ Lots[j].total_cost[1] > Lots[j].amount * Txs[Lots[j].transaction_id].price_per_unit

\* C11: in every reachable state every lot's remaining amount is at least
\* zero and at most the amount of the BUY transaction that created it.
C11_LotAmountWithinBuy ==
    \A j \in DOMAIN Lots :
        /\ Lots[j].amount >= 0
        /\ Lots[j].amount <= Txs[Lots[j].transaction_id].amount

\* C12: in every reachable state a lot is closed if and only if its stored
\* remaining amount is zero, every closed lot has a closed date, the date of
\* the sell that closed it, and every open lot has a remaining amount greater
\* than zero and no closed date.
C12_ClosedIffEmpty ==
    \A j \in DOMAIN Lots :
        /\ Lots[j].is_closed = 1 <=> Lots[j].amount = 0
        /\ Lots[j].is_closed = 1 =>
              /\ Lots[j].closed_date # NULL
              /\ Lots[j].closed_date = Txs[ClosingSell(Lots[j])].timestamp
        /\ Lots[j].is_closed = 0 =>
              /\ Lots[j].amount > 0
              /\ Lots[j].closed_date = NULL

\* The realized entries a step adds.
NewEntries == {i \in DOMAIN db'.realized_pnl : i \notin DOMAIN db.realized_pnl}

\* C13: once a lot is closed no later operation changes any of its fields or
\* reopens it, no later sell under any accounting method creates a realized
\* entry that consumes it (an AVERAGE_COST entry takes no more than the open
\* lots hold), and no operation deletes a lot.
C13_ClosedLotsAreFinal ==
    [][ /\ \A j \in DOMAIN db.cost_basis_lots :
              /\ j \in DOMAIN db'.cost_basis_lots
              /\ db'.cost_basis_lots[j].id = db.cost_basis_lots[j].id
              /\ db.cost_basis_lots[j].is_closed = 1 =>
                    /\ db'.cost_basis_lots[j] = db.cost_basis_lots[j]
                    /\ \A i \in NewEntries : db'.realized_pnl[i].lot_id # j
        /\ \A i \in NewEntries :
              db'.realized_pnl[i].accounting_method = "AVERAGE_COST" =>
                  db'.realized_pnl[i].amount <= PoolAmount(db, db'.realized_pnl[i].symbol)
      ]_vars

\* A sell of a symbol recorded after one of the symbol's lots was closed.
C13_Witness ==
    \E j \in DOMAIN Lots : \E k \in DOMAIN Txs :
        /\ Lots[j].is_closed = 1
        /\ Txs[k].transaction_type = "SELL"
        /\ Txs[k].symbol = Lots[j].symbol
        /\ k > ClosingSell(Lots[j])

\* C14: after a SELL, under any accounting method, whose amount equals the
\* total remaining amount of the symbol's open lots, every lot of that symbol
\* is closed.
C14_SellingAllClosesEveryLot ==
    [][ \A t \in Trackers :
            (/\ Recorded(t)
             /\ CallOf(t).transaction_type = "SELL"
             /\ CallOf(t).amount = PoolAmount(db, CallOf(t).symbol))
            => \A j \in DOMAIN db'.cost_basis_lots :
                   db'.cost_basis_lots[j].symbol = CallOf(t).symbol
                   => db'.cost_basis_lots[j].is_closed = 1
      ]_vars

\* C15: in every reachable state every realized entry references an existing
\* SELL transaction of the entry's symbol and an existing lot of the entry's
\* symbol, whichever accounting method produced the entry.
C15_EntriesReferenceSellAndLot ==
    \A i \in DOMAIN Pnl :
        /\ Pnl[i].sell_transaction_id \in DOMAIN Txs
        /\ Txs[Pnl[i].sell_transaction_id].transaction_type = "SELL"
        /\ Txs[Pnl[i].sell_transaction_id].symbol = Pnl[i].symbol
        /\ Pnl[i].lot_id \in DOMAIN Lots
        /\ Lots[Pnl[i].lot_id].symbol = Pnl[i].symbol

\* C16: a sell creates at most one realized entry per lot it touches and none
\* for a lot it does not touch, and a realized entry, once created, is never
\* modified or deleted by a later operation.
C16_OneEntryPerTouchedLot ==
    [][ /\ \A i \in DOMAIN db.realized_pnl :
              /\ i \in DOMAIN db'.realized_pnl
              /\ db'.realized_pnl[i] = db.realized_pnl[i]
        /\ \A i \in NewEntries :
              /\ db'.realized_pnl[i].sell_transaction_id = Len(db'.transactions)
              /\ \A n \in NewEntries :
                    n # i => db'.realized_pnl[n].lot_id # db'.realized_pnl[i].lot_id
        /\ \A j \in DOMAIN db.cost_basis_lots :
              db'.cost_basis_lots[j] = db.cost_basis_lots[j]
              => \A i \in NewEntries : db'.realized_pnl[i].lot_id # j
      ]_vars

\* A sell that took from one lot of a symbol and left another one alone.
C16_Witness ==
    \E i \in DOMAIN Pnl : \E j \in DOMAIN Lots :
        /\ Pnl[i].lot_id \in DOMAIN Lots
        /\ Pnl[i].lot_id # j
        /\ Lots[j].symbol = Pnl[i].symbol
        /\ Lots[j].transaction_id < Pnl[i].sell_transaction_id
        /\ Lots[j].is_closed = 0
        /\ \A n \in DOMAIN Pnl : Pnl[n].lot_id # j

\* C17: for every external id x and every sequence of record_transaction
\* calls, transaction_exists(x) returns true if and only if some recorded
\* transaction carries external id x: false before the first record with that
\* id and true immediately after it.
C17_ExistsIffRecorded ==
    \A t \in Trackers :
        (out[t].status = "returned" /\ "exists" \in DOMAIN out[t].ret)
        => (out[t].ret.exists
            <=> \E k \in DOMAIN Txs :
                    Txs[k].transaction_id = out[t].args.transaction_id)

\* C18: when the importers run with skip_existing = true, after any number of
\* import runs over any fetched lists (a tx hash may occur twice in a list or
\* in the lists of two addresses or symbols), the ledger never holds two
\* transactions with the same external id.
C18_ImportNeverDuplicates ==
    \A k, n \in DOMAIN Txs :
        (k # n /\ Txs[k].transaction_id # NULL)
        => Txs[k].transaction_id # Txs[n].transaction_id

\* Tracker t's step is a record_transaction call with a zero or negative
\* amount or a negative price.
InvalidCall(t) ==
    /\ calls' = calls + 1
    /\ out'[t] # out[t]
    /\ \/ out'[t].args.amount <= 0
       \/ out'[t].args.price_per_unit < 0

\* C19: record_transaction called with an amount that is zero or negative, or
\* with a negative price, fails with a validation error that reaches the
\* caller, and leaves the transactions, lots and realized entries unchanged.
C19_InvalidRecordRejected ==
    [][ \A t \in Trackers :
            InvalidCall(t) => (out'[t].status = "raised" /\ db' = db) ]_vars

\* C20: calculate_unrealized_pnl(symbol, price) returns none exactly when the
\* symbol has no open lot; otherwise its amount is the sum of the remaining
\* amounts and its cost basis the sum of the total cost of the symbol's open
\* lots only, its gain/loss is amount x price - cost basis, and its
\* percentage is 0 when the cost basis is 0.
C20_UnrealizedOverOpenLots ==
    \A t \in Trackers :
        (out[t].status = "returned" /\ "unrealized" \in DOMAIN out[t].ret)
        => LET symbol == out[t].args.symbol
               price == out[t].args.current_price
               open == { j \in DOMAIN Lots :
                           Lots[j].symbol = symbol /\ Lots[j].is_closed = 0 }
               r == out[t].ret.unrealized
           IN  /\ r = <<>> <=> open = {}
               /\ r # <<>> =>
                     /\ r[1].current_amount = PoolAmount(db, symbol)
                     /\ r[1].total_cost_basis = PoolCost(db, symbol)
                     /\ r[1].unrealized_gain_loss =
                          QSub(Q(r[1].current_amount * price), r[1].total_cost_basis)
                     /\ r[1].total_cost_basis = Q(0) =>
                          r[1].unrealized_gain_loss_pct = Q(0)

\* The year a sale date lies in.
YearOf(ts) == ((ts - 1) \div YearLength) + 1

\* The realized entries of a year and a method, in ledger order.
EntriesOfYear(year, method) ==
    SelectWhere(Pnl, LAMBDA e : YearOf(e.sale_date) = year
                                /\ e.accounting_method = method)

\* The method a generate_tax_report call reports on: FIFO when none is given.
ReportMethod(t) ==
    IF out[t].args.accounting_method = <<>> THEN "FIFO"
    ELSE out[t].args.accounting_method[1]

TaxReported(t) ==
    out[t].status = "returned" /\ "tax_report" \in DOMAIN out[t].ret

\* C22: for any ledger, year and method, the tax report has total_gains >= 0
\* and total_losses >= 0, its net_gain_loss is total_gains - total_losses,
\* and that net is the sum of the realized gain/loss of all realized entries
\* of that year and method.
C22_TaxReportNetIsSumOfEntries ==
    \A t \in Trackers :
        TaxReported(t)
        => LET r == out[t].ret.tax_report
               entries == EntriesOfYear(out[t].args.year, ReportMethod(t))
           IN  /\ r.total_gains[1] >= 0
               /\ r.total_losses[1] >= 0
               /\ r.net_gain_loss = QSub(r.total_gains, r.total_losses)
               /\ r.net_gain_loss = QSumSeq(Column(entries, RealizedGainLossOf))

\* A report over two entries sold at a loss.
C22_Witness ==
    \E t \in Trackers :
        /\ TaxReported(t)
        /\ Len(EntriesOfYear(out[t].args.year, ReportMethod(t))) = 2
        /\ QPos(out[t].ret.tax_report.total_losses)

\* C23: a realized entry is counted in generate_tax_report(year, method) iff
\* its sale date lies in that year, first and last day included, and its
\* accounting method is the method; each counted entry is in the one group
\* of its own symbol, and total_trades is the number of counted entries.
C23_TaxReportCountsYearAndMethod ==
    \A t \in Trackers :
        TaxReported(t)
        => LET r == out[t].ret.tax_report
               entries == EntriesOfYear(out[t].args.year, ReportMethod(t))
           IN  /\ \A symbol \in inputs.symbols :
                     LET n == Len(SelectWhere(entries, LAMBDA e : e.symbol = symbol))
                         groups == { k \in DOMAIN r.trades :
                                        r.trades[k].symbol = symbol }
                     IN  /\ n = 0 => groups = {}
                         /\ n > 0 => /\ Cardinality(groups) = 1
                                     /\ \A k \in groups : r.trades[k].trade_count = n
               /\ \A k \in DOMAIN r.trades : r.trades[k].symbol \in inputs.symbols
               /\ r.total_trades = Len(entries)

\* A report that counts an entry sold in the last second of its year and
\* leaves out an entry of the same symbol.
C23_Witness ==
    \E t \in Trackers :
        /\ TaxReported(t)
        /\ out[t].ret.tax_report.total_trades = 1
        /\ \E i, j \in DOMAIN Pnl :
              /\ Pnl[i].symbol = Pnl[j].symbol
              /\ Pnl[i].sale_date = out[t].args.year * YearLength
              /\ Pnl[i].accounting_method = ReportMethod(t)
              /\ \/ Pnl[j].sale_date > Pnl[i].sale_date
                 \/ Pnl[j].accounting_method # ReportMethod(t)

SummaryReturned(t) ==
    out[t].status = "returned" /\ "summary" \in DOMAIN out[t].ret

\* The symbols a summary call asks about that have open lots.
HeldAsked(t) ==
    IF out[t].args.symbols = <<>> THEN OpenSymbols(db)
    ELSE out[t].args.symbols[1] \cap OpenSymbols(db)

\* C21: when the price feed returns no price for a symbol with open lots,
\* get_portfolio_pnl_summary still returns and still reports that symbol's
\* cost basis: total_cost_basis is the open-lot cost of every symbol asked
\* about that has open lots, priced or not.
C21_SummaryKeepsUnpricedSymbols ==
    \A t \in Trackers :
        SummaryReturned(t)
        => out[t].ret.summary.total_cost_basis
             = SumValues(GetPortfolioCostBasis(db), HeldAsked(t), "total_cost_basis")

FetchReturned(t) ==
    out[t].status = "returned" /\ "fetched" \in DOMAIN out[t].ret

\* C24: the seven reading methods leave the transactions, the lots and the
\* realized entries as they were, whether the price lookup succeeds, fails,
\* is retried or is given up.
Readers ==
    {"unrealized", "unrealized_with_prices", "realized", "tax_report",
     "summary", "cost_basis", "exists"}

ReaderStep(t) ==
    /\ calls' = calls
    /\ out'[t].status = "returned"
    /\ DOMAIN out'[t].ret \cap Readers # {}

C24_ReadersChangeNothing ==
    [][\A t \in Trackers : ReaderStep(t) => db' = db /\ pending' = pending]_vars

\* A summary returned after a retried price lookup, over a ledger with a
\* transaction, an open lot and a realized entry.
C24_Witness ==
    \E t \in Trackers :
        /\ SummaryReturned(t)
        /\ out[t].args.responses[1].status = "429"
        /\ out[t].args.responses[2].status = "ok"
        /\ Len(Pnl) >= 1
        /\ OpenSymbols(db) # {}

\* C27: fetch_current_prices sends at most retry_count requests whatever the
\* service answers, sends none after the first success, and returns the
\* empty map when every attempt fails or retry_count is 0.
C27_FetchStopsWithinRetryCount ==
    \A t \in Trackers :
        FetchReturned(t)
        => LET a == out[t].args
               r == out[t].ret.fetched
           IN  /\ r.requests <= a.retry_count
               /\ \A i \in 1..(r.requests - 1) : a.responses[i].status # "ok"
               /\ (\A i \in 1..a.retry_count : a.responses[i].status # "ok")
                     => r.prices = NoPrices

\* A call that was rate limited, asked again and got prices.
C27_Witness ==
    \E t \in Trackers :
        /\ FetchReturned(t)
        /\ out[t].args.responses[1].status = "429"
        /\ out[t].ret.fetched.requests = 2
        /\ out[t].ret.fetched.prices # NoPrices

\* Lot j of the worked example, as its BUY left it.
ExampleLotUntouched(j) ==
    /\ Lots[j].is_closed = 0
    /\ Lots[j].amount = <<5, 3>>[j]
    /\ Lots[j].total_cost = << Q(25025), Q(13515) >>[j]

\* C25: in the worked example (BUY 0.5 @ 50000 fee 25 = lot A, BUY 0.3 @
\* 45000 fee 15 = lot B, SELL 0.2 @ 60000 fee 12) a FIFO sell leaves exactly
\* one realized entry, on lot A, with cost basis 10010 and gain 1978, lot A
\* with 0.3 and lot B as it was; a LIFO sell leaves exactly one entry, on lot
\* B, with cost basis 9010 and gain 2978, lot B with 0.1 and lot A as it was.
C25_WorkedExampleFifoLifo ==
    /\ WorkedExample("FIFO")
       => /\ Len(Pnl) = 1
          /\ Pnl[1].lot_id = 1
          /\ Pnl[1].amount = 2
          /\ Pnl[1].cost_basis = Q(10010)
          /\ Pnl[1].realized_gain_loss = Q(1978)
          /\ Lots[1].amount = 3 /\ Lots[1].is_closed = 0
          /\ ExampleLotUntouched(2)
    /\ WorkedExample("LIFO")
       => /\ Len(Pnl) = 1
          /\ Pnl[1].lot_id = 2
          /\ Pnl[1].amount = 2
          /\ Pnl[1].cost_basis = Q(9010)
          /\ Pnl[1].realized_gain_loss = Q(2978)
          /\ Lots[2].amount = 1 /\ Lots[2].is_closed = 0
          /\ ExampleLotUntouched(1)

\* The worked example sold by LIFO.
C25_Witness == WorkedExample("LIFO") /\ Len(Pnl) = 1 /\ Len(Lots) = 2

XpubReturned(t) ==
    out[t].status = "returned" /\ "xpub" \in DOMAIN out[t].ret

\* C26: fetch_bitcoin_balance_from_xpub checks every address derived from
\* the xpub, all 50 of them, and returns the sum of all their balances
\* wherever in the sequence the funded addresses lie.
C26_XpubChecksEveryAddress ==
    \A t \in Trackers :
        (XpubReturned(t) /\ out[t].args.num_addresses = NumAddresses)
        => /\ out[t].ret.xpub.checked = NumAddresses
           /\ out[t].ret.xpub.balance
                = << SumSeq(BalancesOf(NumAddresses,
                                       out[t].args.funded \cap 1..NumAddresses)) >>

\* What the symbol's BUYs cost: the sum of amount*price + fee.
AcquisitionCost(symbol) ==
    Q(SumSeq(Column(SelectWhere(Txs, LAMBDA r : r.symbol = symbol
                                                /\ r.transaction_type = "BUY"),
                    LAMBDA r : r.amount * r.price_per_unit + r.fee)))

\* The symbol's realized entries.
EntriesOfSymbol(symbol) == SelectWhere(Pnl, LAMBDA e : e.symbol = symbol)

\* Every SELL so far ran under FIFO or LIFO and was covered by open lots.
OnlyCoveredFifoLifoSells ==
    \A k \in DOMAIN Txs : Txs[k].transaction_type = "SELL" => CoveredFifoLifoSell(k)

\* C28: after BUYs with positive amounts and FIFO or LIFO SELLs none of which
\* exceeds the open amount, for every symbol the total cost of the open lots
\* plus the cost basis of the realized entries is the sum of amount*price +
\* fee over the symbol's BUYs.
C28_AcquisitionCostConserved ==
    OnlyCoveredFifoLifoSells
    => \A symbol \in inputs.symbols :
           QAdd(PoolCost(db, symbol),
                QSumSeq(Column(EntriesOfSymbol(symbol), CostBasisOf)))
             = AcquisitionCost(symbol)

\* A lot sold in part, with the rest still open, and no other kind of sell.
C28_Witness ==
    /\ OnlyCoveredFifoLifoSells
    /\ Len(Pnl) >= 1
    /\ \E j \in DOMAIN Lots :
          /\ Lots[j].is_closed = 0
          /\ Lots[j].amount < Txs[Lots[j].transaction_id].amount

\* C29: for every symbol and any mix of FIFO, LIFO and AVERAGE_COST sells,
\* the amounts of the symbol's realized entries sum to at most the amount
\* bought: no bought unit is realized twice.
C29_NoUnitRealizedTwice ==
    \A symbol \in inputs.symbols :
        SumSeq(Column(EntriesOfSymbol(symbol), AmountOf)) <= Bought(db, symbol)

\* C30: every realized entry's sale date is no earlier than the purchase
\* date of the lot it consumes; a SELL dated before a lot's purchase does not
\* consume that lot.
C30_SaleNotBeforePurchase ==
    \A i \in DOMAIN Pnl :
        Pnl[i].lot_id \in DOMAIN Lots
        => Pnl[i].sale_date >= Lots[Pnl[i].lot_id].purchase_date
====
